---------------------------- MODULE Spec2Model ----------------------------
(***************************************************************************)
(* Model of the giveup crate: Result::hint, Result::example,               *)
(* Result::giveup, the cause-chain formatter format_err_msg and the        *)
(* Display / Error implementations of HintedError and Hint.                *)
(*                                                                         *)
(* A text is a sequence of string tokens; every format!/write! template    *)
(* of the source is the concatenation of its literal pieces and of the     *)
(* Display output of its arguments.  Flatten turns a text into the string  *)
(* it denotes.  The backquote character cannot be written inside a TLA+    *)
(* string, so it is denoted by the token BQ.                               *)
(***************************************************************************)
EXTENDS Integers, Sequences, FiniteSets, TLC

(* ------------------------------ bounds --------------------------------- *)
\* longest cause chain below a caller-supplied error
MaxCauses == 2
\* most hint/example calls applied to one outcome before giveup
MaxOps == 3

(* ---------------------------- input domains ---------------------------- *)
Descr    == {"disk full", "no space on device"}
Hints    == {"Free up space", "Retry later"}
Examples == {"rm largefile", "df -h"}
Msgs     == {"Write failed", "Cannot save"}
Values   == {0, 1}

NL        == "\n"
BQ        == "<backquote>"
SGR_BOLD  == "<ESC>[1m"
SGR_RESET == "<ESC>[0m"

None    == <<>>
Some(x) == <<x>>

(* --------------------------- error values ------------------------------ *)
\* A caller-supplied error (FlatErr, SingleSourceErr, MultiSourceErr, ...):
\* its own description followed by the descriptions of its causes.
PlainErr(chain) == [kind |-> "plain", chain |-> chain]

Chains == UNION {[1..n -> Descr] : n \in 1..(MaxCauses + 1)}

PlainErrs == {PlainErr(c) : c \in Chains}

Ok(t)  == [tag |-> "Ok", t |-> t]
Err(e) == [tag |-> "Err", e |-> e]

\* HintedError::from_hint (called as with_hint by Giveup::hint)
from_hint(e, hint) ==
    [kind |-> "hinted", e |-> e, hint |-> [hint |-> hint, example |-> None]]

\* the hint left out when an example is present
Hint_fmt_example_only(self) ==
    IF self.example # None
    THEN <<BQ, self.example[1], BQ>>
    ELSE <<self.hint>>

\* the example written without its backquotes
Hint_fmt_no_backquotes(self) ==
    IF self.example # None
    THEN <<self.hint, ": ", self.example[1]>>
    ELSE <<self.hint>>

\* impl Display for Hint
Hint_fmt(self) ==
    IF self.example # None
    THEN <<self.hint, ": ", BQ, self.example[1], BQ>>
    ELSE <<self.hint>>

RECURSIVE Display(_)
RECURSIVE source(_)

\* "{}{}": the newline between the error and the hint left out
HintedError_fmt_no_newline(self) == Display(self.e) \o Hint_fmt(self.hint)

\* only the wrapped error written, the hint dropped
HintedError_fmt_no_hint(self) == Display(self.e)

\* impl Display for HintedError: write!(f, "{}\n{}", self.e, self.hint)
HintedError_fmt(self) == Display(self.e) \o <<NL>> \o Hint_fmt(self.hint)

\* the wrapped error itself returned as the source
HintedError_source_wrapped(self) == Some(self.e)

\* impl Error for HintedError: fn source(&self) { self.e.source() }
HintedError_source(self) == source(self.e)

\* "{err}": the Display implementation of the error's concrete type
Display(err) ==
    IF err.kind = "hinted" THEN HintedError_fmt(err) ELSE <<err.chain[1]>>

\* err.source(): the Error implementation of the error's concrete type
source(err) ==
    IF err.kind = "hinted"
    THEN HintedError_source(err)
    ELSE IF Len(err.chain) > 1 THEN Some(PlainErr(Tail(err.chain))) ELSE None

\* the while-let loop of format_err_msg
RECURSIVE cause_loop(_, _)
cause_loop(current, err_msg) ==
    IF current # None
    THEN LET cause     == current[1]
             cause_msg == <<"Caused by: ">> \o Display(cause) \o <<NL>>
         IN  cause_loop(source(cause), err_msg \o cause_msg)
    ELSE err_msg

\* the loop started at the error itself instead of at its source
format_err_msg_dup(err) == cause_loop(Some(err), Display(err) \o <<NL>>)

format_err_msg(err) == cause_loop(source(err), Display(err) \o <<NL>>)

\* the Ok arm rebuilding the value instead of passing it on
hint_loses_value(self, h) ==
    IF self.tag = "Ok" THEN Ok(0) ELSE Err(from_hint(self.e, h))

\* Giveup::hint
hint(self, h) ==
    IF self.tag = "Ok" THEN Ok(self.t) ELSE Err(from_hint(self.e, h))

\* an example that is set only while none is stored
example_keep_first(self, x) ==
    IF self.tag = "Err" /\ self.e.hint.example = None
    THEN [self EXCEPT !.e.hint.example = Some(x)]
    ELSE self

\* Example::example
example(self, x) ==
    IF self.tag = "Err"
    THEN [self EXCEPT !.e.hint.example = Some(x)]
    ELSE self

\* colored::Colorize::bold: wraps the text in SGR codes when colouring is on
bold(msg, colorize) ==
    IF colorize THEN <<SGR_BOLD, msg, SGR_RESET>> ELSE <<msg>>

\* eprintln! in place of eprint!: one more newline after the body
stderr_text_ln(msg, body, colorize) ==
    bold(msg, colorize) \o <<": ">> \o body \o <<NL>>

\* what exit_gracefully writes: eprint!("{}: {}", msg.bold(), err_msg)
stderr_text(msg, body, colorize) == bold(msg, colorize) \o <<": ">> \o body

(* ------------------------------- state --------------------------------- *)
VARIABLES
    pc,          \* "pending": an outcome is in hand; "returned": giveup
                 \* returned its value; "terminated": process::exit ran
    outcome,     \* the Result the call chain is operating on
    depth,       \* number of HintedError layers in the static error type
    stderr,      \* the writes made to the standard error stream
    exit_code,   \* None while the process runs, Some(status) after exit
    ret,         \* the value the last returning giveup handed to its caller
    err_msg,     \* the local err_msg of giveup (None before it is computed)
    colorize,    \* environment: whether colored emits SGR codes
    input,       \* the outcome as the fallible computation produced it
    ops          \* the calls applied to it so far

vars == <<pc, outcome, depth, stderr, exit_code, ret, err_msg, colorize,
          input, ops>>

Outcomes == {Ok(v) : v \in Values} \cup {Err(e) : e \in PlainErrs}

Init ==
    /\ pc = "pending"
    /\ outcome \in Outcomes
    /\ input = outcome
    /\ depth = 0
    /\ stderr = <<>>
    /\ exit_code = None
    /\ ret = None
    /\ err_msg = None
    /\ colorize \in BOOLEAN
    /\ ops = <<>>

\* result.hint(h)
DoHint ==
    /\ pc = "pending"
    /\ Len(ops) < MaxOps
    /\ \E h \in Hints :
         /\ outcome' = hint(outcome, h)
         /\ ops' = Append(ops, [op |-> "hint", arg |-> h])
    /\ depth' = depth + 1
    /\ UNCHANGED <<pc, stderr, exit_code, ret, err_msg, colorize, input>>

\* result.example(x): only defined on Result<T, HintedError<E>>
DoExample ==
    /\ pc = "pending"
    /\ depth >= 1
    /\ Len(ops) < MaxOps
    /\ \E x \in Examples :
         /\ outcome' = example(outcome, x)
         /\ ops' = Append(ops, [op |-> "example", arg |-> x])
    /\ UNCHANGED <<pc, depth, stderr, exit_code, ret, err_msg, colorize, input>>

\* result.giveup(msg), Ok arm: the value is handed back to the caller
GiveupOk ==
    /\ pc = "pending"
    /\ outcome.tag = "Ok"
    /\ \E msg \in Msgs : ops' = Append(ops, [op |-> "giveup", arg |-> msg])
    /\ ret' = Some(outcome.t)
    /\ pc' = "returned"
    /\ UNCHANGED <<outcome, depth, stderr, exit_code, err_msg, colorize, input>>

\* the Err arm writing the message and then returning to the caller
GiveupErr_no_exit ==
    /\ pc = "pending"
    /\ outcome.tag = "Err"
    /\ \E msg \in Msgs :
         LET m == format_err_msg(outcome.e) IN
         /\ err_msg' = Some(m)
         /\ stderr' = Append(stderr, stderr_text(msg, m, colorize))
         /\ ops' = Append(ops, [op |-> "giveup", arg |-> msg])
    /\ pc' = "returned"
    /\ UNCHANGED <<outcome, depth, ret, exit_code, colorize, input>>

\* result.giveup(msg), Err arm: format_err_msg then exit_gracefully
\* (eprint!("{}: {}", msg.bold(), err_msg); std::process::exit(1))
GiveupErr ==
    /\ pc = "pending"
    /\ outcome.tag = "Err"
    /\ \E msg \in Msgs :
         LET m == format_err_msg(outcome.e) IN
         /\ err_msg' = Some(m)
         /\ stderr' = Append(stderr, stderr_text(msg, m, colorize))
         /\ ops' = Append(ops, [op |-> "giveup", arg |-> msg])
    /\ exit_code' = Some(1)
    /\ pc' = "terminated"
    /\ UNCHANGED <<outcome, depth, ret, colorize, input>>

\* after giveup returned, the program goes on and a later fallible
\* computation produces the next outcome
Compute ==
    /\ pc = "returned"
    /\ outcome' \in Outcomes
    /\ input' = outcome'
    /\ depth' = 0
    /\ ops' = <<>>
    /\ pc' = "pending"
    /\ UNCHANGED <<stderr, exit_code, ret, err_msg, colorize>>

Next == DoHint \/ DoExample \/ GiveupOk \/ GiveupErr \/ Compute

Spec == Init /\ [][Next]_vars

(* --------------------- vocabulary of the properties -------------------- *)
RECURSIVE Flatten(_)
Flatten(text) == IF text = <<>> THEN "" ELSE Head(text) \o Flatten(Tail(text))

\* the text without the SGR styling codes
Unstyled(text) == SelectSeq(text, LAMBDA t : t \notin {SGR_BOLD, SGR_RESET})

\* the lines of a text: the pieces between newlines, without the newlines;
\* a last piece that no newline terminates is not a line
RECURSIVE SplitLines(_, _, _)
SplitLines(text, cur, acc) ==
    IF text = <<>> THEN acc
    ELSE IF Head(text) = NL
         THEN SplitLines(Tail(text), <<>>, Append(acc, cur))
         ELSE SplitLines(Tail(text), Append(cur, Head(text)), acc)

Lines(text) == SplitLines(text, <<>>, <<>>)

NewlineTerminated(text) == text # <<>> /\ text[Len(text)] = NL

IsPrefix(p, text) == Len(p) <= Len(text) /\ SubSeq(text, 1, Len(p)) = p

Drop(text, k) == SubSeq(text, k + 1, Len(text))

\* the errors reached from err by repeatedly taking source(), nearest first
RECURSIVE Causes(_)
Causes(err) ==
    IF source(err) = None THEN <<>>
    ELSE <<source(err)[1]>> \o Causes(source(err)[1])

LastOp == ops[Len(ops)]

\* this step is a call of the named operation
StepOp(name) == Len(ops') = Len(ops) + 1 /\ ops'[Len(ops')].op = name

\* the position in ops of the latest hint call
LastHintIdx ==
    CHOOSE i \in 1..Len(ops) :
        ops[i].op = "hint" /\ \A j \in (i + 1)..Len(ops) : ops[j].op # "hint"

\* the caller-supplied error inside any number of HintedError layers
RECURSIVE Base(_)
Base(err) == IF err.kind = "hinted" THEN Base(err.e) ELSE err

\* the lines that start with the Caused-by prefix
CausedByLines(text) ==
    SelectSeq(Lines(text), LAMBDA l : l # <<>> /\ l[1] = "Caused by: ")

\* giveup(msg) has just been applied to a Failure
GaveUpOnErr == pc = "terminated"

C2_State ==
    /\ exit_code \in {None, Some(1)}
    /\ (pc # "terminated" => stderr = <<>> /\ exit_code = None)
    /\ GaveUpOnErr =>
          /\ LastOp.op = "giveup"
          /\ outcome.tag = "Err"
          /\ Len(stderr) = 1
          /\ Unstyled(stderr[1]) =
                 <<LastOp.arg, ": ">> \o format_err_msg(outcome.e)
          /\ NewlineTerminated(stderr[1])
          /\ stderr[1][Len(stderr[1]) - 1] # NL
          /\ exit_code = Some(1)

C2_Step ==
    /\ (pc = "pending" /\ outcome.tag = "Err" /\ ops' # ops
            /\ ops'[Len(ops')].op = "giveup")
          => /\ pc' = "terminated"
             /\ ret' = ret
             /\ Len(stderr') = Len(stderr) + 1
             /\ exit_code' = Some(1)
    /\ pc # "terminated"

\* C2: giveup(msg) on a Failure makes exactly one write to the diagnostic
\* stream, "<msg>: " followed by format_err_msg(error) with no newline added
\* after the body, then the process ends with status 1 and nothing is
\* returned to the caller; no status other than 1 is ever produced.
C2_GiveupOnFailure == []C2_State /\ [][C2_Step]_vars

C2_Witness ==
    /\ GaveUpOnErr
    /\ colorize
    /\ ret # None
    /\ Len(Causes(outcome.e)) >= 1

(* ------------------------------ C3 ------------------------------------- *)
C3_Scenario ==
    /\ GaveUpOnErr
    /\ input = Err(PlainErr(<<"disk full", "no space on device">>))
    /\ ops = << [op |-> "hint",    arg |-> "Free up space"],
                [op |-> "example", arg |-> "rm largefile"],
                [op |-> "giveup",  arg |-> "Write failed"] >>

\* C3 as stated: the Caused-by line comes before the hint line.
C3_Original ==
    C3_Scenario =>
        /\ Flatten(Unstyled(stderr[1])) =
              "Write failed: disk full\n" \o
              "Caused by: no space on device\n" \o
              "Free up space: " \o BQ \o "rm largefile" \o BQ \o "\n"
        /\ exit_code = Some(1)

\* C3: E1 "disk full" caused by E2 "no space on device", hint
\* "Free up space", example "rm largefile", giveup "Write failed": the one
\* write is the message, colon, E1's description, then the hint line with
\* its example, then the Caused-by line of E2; the exit status is 1.
C3_EndToEnd ==
    C3_Scenario =>
        /\ Len(stderr) = 1
        /\ Flatten(Unstyled(stderr[1])) =
              "Write failed: disk full\n" \o
              "Free up space: " \o BQ \o "rm largefile" \o BQ \o "\n" \o
              "Caused by: no space on device\n"
        /\ exit_code = Some(1)

C3_Witness == C3_Scenario /\ stderr # <<>>

(* ------------------------------ C4 ------------------------------------- *)
\* giveup ran right after hint(h) on a Failure
HintThenGiveup ==
    /\ GaveUpOnErr
    /\ Len(ops) >= 2
    /\ ops[Len(ops) - 1].op = "hint"

\* C4 as stated: format(hint(Failure(e), h).error) = format(e) ++ h ++ "\n".
C4_Original ==
    HintThenGiveup =>
        err_msg[1] = format_err_msg(outcome.e.e) \o <<ops[Len(ops) - 1].arg, NL>>

\* C4: for every error e and hint text h, the error of hint(Failure(e), h)
\* wraps e with hint h and no example, and its rendering is e's description
\* line(s), then the bare hint text h on its own line, then the Caused-by
\* lines of e's rendering; it is format_err_msg(e) followed by h and a
\* newline exactly when e has no causes.
C4_HintRendering ==
    HintThenGiveup =>
        LET h  == ops[Len(ops) - 1].arg
            e  == outcome.e.e
            fe == format_err_msg(e)
            d  == Display(e) \o <<NL>>
        IN  /\ outcome.e.kind = "hinted"
            /\ outcome.e.hint = [hint |-> h, example |-> None]
            /\ (Len(ops) = 2 => e = input.e)
            /\ IsPrefix(d, fe)
            /\ err_msg[1] = d \o <<h, NL>> \o Drop(fe, Len(d))
            /\ (err_msg[1] = fe \o <<h, NL>>) <=> (Causes(e) = <<>>)

C4_Witness ==
    /\ HintThenGiveup
    /\ Len(Causes(outcome.e.e)) = 2
    /\ outcome.e.e.kind = "plain"

(* ------------------------------ C5 ------------------------------------- *)
\* giveup ran right after hint(h) ... example(x) on a Failure
ExampleThenGiveup ==
    /\ GaveUpOnErr
    /\ Len(ops) >= 3
    /\ ops[Len(ops) - 1].op = "example"

\* C5 as stated: the final line of the rendering is the hint with its example.
C5_Original ==
    ExampleThenGiveup =>
        LET L == Lines(err_msg[1])
        IN  L[Len(L)] = <<ops[LastHintIdx].arg, ": ", BQ, ops[Len(ops) - 1].arg, BQ>>

\* C5: for every error e, hint h and example x, the rendering after hint(h)
\* then example(x) has the line h, colon, x between backquotes directly
\* after e's description; every line after it is a Caused-by line of e, so
\* it is the final line exactly when e has no causes.
C5_ExampleRendering ==
    ExampleThenGiveup =>
        LET h == ops[LastHintIdx].arg
            x == ops[Len(ops) - 1].arg
            e == outcome.e.e
            L == Lines(err_msg[1])
            i == Len(Lines(Display(e) \o <<NL>>)) + 1
        IN  /\ Len(L) = i + Len(Causes(e))
            /\ L[i] = <<h, ": ", BQ, x, BQ>>
            /\ \A k \in 1..Len(Causes(e)) :
                   L[i + k] = <<"Caused by: ">> \o Display(Causes(e)[k])
            /\ (L[Len(L)] = <<h, ": ", BQ, x, BQ>>) <=> (Causes(e) = <<>>)

C5_Witness ==
    /\ ExampleThenGiveup
    /\ Len(Causes(outcome.e.e)) >= 1
    /\ outcome.e.e.kind = "plain"

(* ------------------------------ C6 ------------------------------------- *)
\* C6: the rendering of a HintedError starts with the wrapped error's own
\* description and has, on a later line, the hint text, followed by colon
\* and the example between backquotes when an example is present.
C6_HintNeverDropped ==
    (GaveUpOnErr /\ outcome.e.kind = "hinted") =>
        LET e  == outcome.e.e
            hi == outcome.e.hint
            L  == Lines(err_msg[1])
            d  == Lines(Display(e) \o <<NL>>)
            hl == IF hi.example = None THEN <<hi.hint>>
                  ELSE <<hi.hint, ": ", BQ, hi.example[1], BQ>>
        IN  /\ SubSeq(L, 1, Len(d)) = d
            /\ L[1] = <<Base(e).chain[1]>>
            /\ \E i \in 2..Len(L) : L[i] = hl
            /\ \E j \in 1..Len(err_msg[1]) : err_msg[1][j] = hi.hint

C6_Witness ==
    /\ GaveUpOnErr
    /\ outcome.e.kind = "hinted"
    /\ outcome.e.hint.example # None
    /\ Len(Causes(outcome.e)) = 2

(* ------------------------------ C7 ------------------------------------- *)
\* C7: on a Success, hint and example return Success with the same value:
\* after any sequence of hint and example calls the outcome is still the
\* Ok the computation produced, with no error, hint or example in it, and
\* giveup hands that value back.
C7_SuccessIdentity ==
    input.tag = "Ok" =>
        /\ outcome = input
        /\ outcome = Ok(input.t)
        /\ (pc = "returned" => ret = Some(input.t))

C7_Witness ==
    /\ input = Ok(1)
    /\ pc = "returned"
    /\ Len(ops) = 4
    /\ ops[1].op = "hint"
    /\ ops[2].op = "example"
    /\ ops[3].op = "example"

(* ------------------------------ C8 ------------------------------------- *)
C8_Step ==
    /\ (StepOp("hint") /\ outcome.tag = "Err") =>
           /\ outcome'.tag = "Err"
           /\ outcome'.e.kind = "hinted"
           /\ outcome'.e.hint.example = None
           /\ outcome'.e.hint.hint = ops'[Len(ops')].arg
           /\ outcome'.e.e = outcome.e
    /\ (StepOp("example") /\ outcome.tag = "Err") =>
           /\ outcome'.tag = "Err"
           /\ outcome'.e.kind = "hinted"
           /\ outcome'.e.hint.example = Some(ops'[Len(ops')].arg)
           /\ outcome'.e.hint.hint = outcome.e.hint.hint
           /\ outcome'.e.e = outcome.e.e
    /\ ((StepOp("example") \/ StepOp("giveup")) /\ outcome.tag = "Err"
            /\ outcome.e.kind = "hinted" /\ outcome.e.hint.example # None) =>
           outcome'.e.hint.example # None

C8_State ==
    (GaveUpOnErr /\ depth = 1) =>
        LET shown == {x \in Examples :
                        \E j \in 1..Len(err_msg[1]) : err_msg[1][j] = x}
        IN  IF ops[Len(ops) - 1].op = "example"
            THEN /\ shown = {ops[Len(ops) - 1].arg}
                 /\ outcome.e.hint =
                       [hint |-> ops[LastHintIdx].arg,
                        example |-> Some(ops[Len(ops) - 1].arg)]
                 /\ outcome.e.e = input.e
            ELSE shown = {}

\* C8: after hint(h) on a Failure the example is absent; after each
\* example(x) the stored example is present and equals x, so it is never
\* cleared once set and only the latest example is in the rendering; the
\* hint text and the wrapped error stay as they were.
C8_ExampleOverwrite == []C8_State /\ [][C8_Step]_vars

C8_Witness ==
    /\ GaveUpOnErr
    /\ Len(ops) = 4
    /\ ops[1].op = "hint"
    /\ ops[2].op = "example"
    /\ ops[3].op = "example"
    /\ ops[2].arg # ops[3].arg

(* ------------------------------ C9 ------------------------------------- *)
C9_Step ==
    /\ (pc' = "terminated" /\ pc # "terminated")
          <=> (pc = "pending" /\ StepOp("giveup") /\ outcome.tag = "Err")
    /\ (StepOp("giveup") /\ outcome.tag = "Ok") =>
           /\ ret' = Some(outcome.t)
           /\ pc' = "returned"
           /\ stderr' = stderr
           /\ exit_code' = exit_code
    /\ (StepOp("hint") \/ StepOp("example")) =>
           /\ pc' = pc
           /\ stderr' = stderr
           /\ exit_code' = exit_code
    /\ pc # "terminated"

C9_State ==
    /\ (pc = "terminated") <=> (exit_code # None)
    /\ (pc = "terminated") <=> (stderr # <<>>)

\* C9: the process becomes Terminated exactly when giveup is applied to a
\* Failure; giveup on a Success returns the value, writes nothing and the
\* process goes on; hint and example neither terminate nor write; from
\* Terminated there is no further step.
C9_TerminationOnlyOnFailure == []C9_State /\ [][C9_Step]_vars

C9_Witness ==
    /\ pc = "terminated"
    /\ ret # None
    /\ Len(ops) = 4

(* ------------------------------ C10 ------------------------------------ *)
\* C10 as stated: the cause of a HintedError is the wrapped error, which is
\* therefore an element of the chain reached through source().
C10_Original ==
    (GaveUpOnErr /\ outcome.e.kind = "hinted") =>
        /\ source(outcome.e) = Some(outcome.e.e)
        /\ Causes(outcome.e) = <<outcome.e.e>> \o Causes(outcome.e.e)

\* C10: the cause of a HintedError is the cause of the wrapped error:
\* walking the chain from a HintedError visits the HintedError and then each
\* of the wrapped error's causes in order; the wrapped error itself is not
\* an element of the chain, and the rendering has one Caused-by line per
\* cause of the wrapped error and none for the wrapped error.
C10_SourceDelegated ==
    (GaveUpOnErr /\ outcome.e.kind = "hinted") =>
        LET b == Base(outcome.e)
        IN  /\ source(outcome.e) = source(outcome.e.e)
            /\ Causes(outcome.e) = Causes(outcome.e.e)
            /\ Causes(outcome.e) =
                  [k \in 1..(Len(b.chain) - 1) |->
                      PlainErr(SubSeq(b.chain, k + 1, Len(b.chain)))]
            /\ \A k \in 1..Len(Causes(outcome.e)) :
                   Causes(outcome.e)[k] # outcome.e.e
            /\ CausedByLines(err_msg[1]) =
                  [k \in 1..(Len(b.chain) - 1) |->
                      <<"Caused by: ", b.chain[k + 1]>>]

C10_Witness ==
    /\ GaveUpOnErr
    /\ outcome.e.kind = "hinted"
    /\ Len(Base(outcome.e).chain) = 3

=============================================================================
